---- MODULE Spec2Model ----
(***************************************************************************)
(* pixel-art-pipeline: the frame codec, the animation assembler, the       *)
(* reference resolver and the batch orchestrator, as a state machine over   *)
(* the output directory tree.                                               *)
(***************************************************************************)
EXTENDS Integers, Sequences, FiniteSets, TLC

(***************************************************************************)
(* Bounds of the model.                                                     *)
(***************************************************************************)
\* largest frame-set size handed to the frame codec on its own
MaxFrames == 101
\* invocations of the generate command in one behaviour
MaxRuns == 3
\* remote calls that fail in one behaviour
MaxFail == 3

(***************************************************************************)
(* Program constants.                                                       *)
(***************************************************************************)
\* frames returned by one remote generation call
FramesPerCall == 16
\* default completion threshold of _has_frames
MinCount == 16
\* completion threshold of a cycle
CycleMinCount == 32
\* start index of the emote extension
EmoteOffset == 16
\* default frame_index of create_static_fallback
DefaultFrameIndex == 15
\* cost of one generation, in cents
CallCost == 16
\* project settings (defaults of PipelineConfig)
FrameSize == 64
UpscaleSize == 512
FrameDurationMs == 200

(***************************************************************************)
(* Values.  An optional value is a sequence of length 0 (absent) or 1.      *)
(***************************************************************************)
None == <<>>
Some(x) == <<x>>

\* base64.b64encode / base64.b64decode: the transfer encoding wraps the bytes
b64encode(bytes) == [enc |-> "base64", of |-> bytes]
b64decode(text) == text.of

\* the frame dict exchanged with the remote service
encode_image(bytes) == [type |-> "base64", base64 |-> b64encode(bytes), format |-> "png"]

\* the bytes of a PNG file holding picture px at size x size
Png(px, size) == [px |-> px, size |-> size]
\* Image.open: the decoded picture, with its canvas
ImageOpen(bytes) == [px |-> bytes.px, w |-> bytes.size, h |-> bytes.size]
\* Image.resize((u, u), NEAREST)
Resize(img, u) == [px |-> img.px, w |-> u, h |-> u]

(***************************************************************************)
(* File names.  A frame directory is a function from the frame indices of   *)
(* the files present to their bytes; the file of index i is named           *)
(* frame_<i:02d>.png.                                                       *)
(***************************************************************************)
RECURSIVE Digits(_)
Digits(i) == IF i < 10 THEN <<i>> ELSE Append(Digits(i \div 10), i % 10)

\* the index formatted without padding, f"{i}"
Fmt02d_unpadded(i) == Digits(i)

\* f"{i:02d}": at least two digits, zero padded
Fmt02d(i) == IF i < 10 THEN <<0, i>> ELSE Digits(i)

\* character codes of the part of the name that differs: the digits, then "."
NameChars(i) == [k \in 1..(Len(Fmt02d(i)) + 1) |->
                   IF k <= Len(Fmt02d(i)) THEN 48 + Fmt02d(i)[k] ELSE 46]

\* largest frame index the model meets
MaxIndex == MaxFrames + EmoteOffset

\* longest name part the model meets (the digits of the largest index, and the dot)
NameWidth == Len(Digits(MaxIndex)) + 1

RECURSIVE Pow(_, _)
Pow(b, e) == IF e = 0 THEN 1 ELSE b * Pow(b, e - 1)

\* the lexicographic rank of a name: its characters read as a base-64 numeral,
\* left aligned (a missing character sorts before every character)
NameKey(i) ==
  LET cs == NameChars(i)
      RECURSIVE Sum(_)
      Sum(k) == IF k > NameWidth THEN 0
                ELSE (IF k <= Len(cs) THEN cs[k] ELSE 0) * Pow(64, NameWidth - k)
                     + Sum(k + 1)
  IN Sum(1)

\* the keys of the names of indices lo..hi, in index order
RECURSIVE NameKeysOf(_, _)
NameKeysOf(lo, hi) ==
  IF lo > hi THEN <<>>
  ELSE IF lo = hi THEN <<NameKey(lo)>>
  ELSE NameKeysOf(lo, (lo + hi) \div 2) \o NameKeysOf((lo + hi) \div 2 + 1, hi)

\* the key of index j at position j + 1
NameKeys == NameKeysOf(0, MaxIndex)

KeyOf(i) == NameKeys[i + 1]

\* the position of the name of index i among the names the model meets
RankOf(i) == Cardinality({j \in 0..MaxIndex : KeyOf(j) < KeyOf(i)}) + 1

\* the indices whose names take positions lo..hi
RECURSIVE OrderOf(_, _)
OrderOf(lo, hi) ==
  IF lo > hi THEN <<>>
  ELSE IF lo = hi THEN <<CHOOSE i \in 0..MaxIndex : RankOf(i) = lo>>
  ELSE OrderOf(lo, (lo + hi) \div 2) \o OrderOf((lo + hi) \div 2 + 1, hi)

\* every frame file name the model meets, in sorted() order
NameOrder == OrderOf(1, MaxIndex + 1)

\* sorted(directory.glob("frame_*.png")): the indices present, in name order
sorted_glob(dir) == SelectSeq(NameOrder, LAMBDA i : i \in DOMAIN dir)

EmptyDir == [i \in {} |-> None]

(***************************************************************************)
(* Frame codec (assembler.py).                                              *)
(***************************************************************************)
\* save_frames_offset writing its frames last to first
WriteFrames_backwards(dir, frames, offset, n) ==
  LET new == {offset + Len(frames) - k : k \in 1..n}
  IN [i \in (DOMAIN dir) \cup new |->
        IF i \in new THEN b64decode(frames[i - offset + 1].base64) ELSE dir[i]]

\* the directory after the first n frames of save_frames_offset are written
WriteFrames(dir, frames, offset, n) ==
  LET new == {offset + k - 1 : k \in 1..n}
  IN [i \in (DOMAIN dir) \cup new |->
        IF i \in new THEN b64decode(frames[i - offset + 1].base64) ELSE dir[i]]

save_frames_offset(dir, frames, offset) == WriteFrames(dir, frames, offset, Len(frames))

save_frames(dir, frames) == WriteFrames(dir, frames, 0, Len(frames))

\* the paths save_frames_offset returns, as frame indices
saved_paths(frames, offset) == [k \in 1..Len(frames) |-> offset + k - 1]

(***************************************************************************)
(* Animation assembler (assembler.py).                                      *)
(***************************************************************************)
\* frames_to_gif with the frames left at their own size
frames_to_gif_unscaled(dir, upscale_size, duration_ms) ==
  LET frame_files == sorted_glob(dir)
      frames == [k \in 1..Len(frame_files) |-> ImageOpen(dir[frame_files[k]])]
  IN IF Len(frame_files) = 0
     THEN [ret |-> None, file |-> None, mkdir |-> FALSE]
     ELSE [ret |-> Some("output_path"),
           file |-> Some([frames |-> frames,
                          duration |-> duration_ms, loop |-> 0, disposal |-> 2]),
           mkdir |-> TRUE]

\* frames_to_gif: what it returns, the animated image it writes and whether it
\* creates the parent of output_path; absent when no frame file matches
frames_to_gif(dir, upscale_size, duration_ms) ==
  LET frame_files == sorted_glob(dir)
      frames == [k \in 1..Len(frame_files) |-> ImageOpen(dir[frame_files[k]])]
      upscaled == [k \in 1..Len(frames) |-> Resize(frames[k], upscale_size)]
  IN IF Len(frame_files) = 0
     THEN [ret |-> None, file |-> None, mkdir |-> FALSE]
     ELSE [ret |-> Some("output_path"),
           file |-> Some([frames |-> <<upscaled[1]>> \o SubSeq(upscaled, 2, Len(upscaled)),
                          duration |-> duration_ms, loop |-> 0, disposal |-> 2]),
           mkdir |-> TRUE]

\* create_static_fallback creating the output directory before it looks for frames
create_static_fallback_mkdir_first(dir, upscale_size, frame_index) ==
  LET frames == sorted_glob(dir)
      found == frame_index \in DOMAIN dir
  IN IF ~found /\ Len(frames) = 0
     THEN [ret |-> None, file |-> None, mkdir |-> TRUE]
     ELSE LET frame_file == IF found THEN frame_index ELSE frames[Len(frames)]
          IN [ret |-> Some("output_path"),
              file |-> Some(Resize(ImageOpen(dir[frame_file]), upscale_size)),
              mkdir |-> TRUE]

\* create_static_fallback always taking the last frame file
create_static_fallback_last(dir, upscale_size, frame_index) ==
  LET frames == sorted_glob(dir)
  IN IF Len(frames) = 0
     THEN [ret |-> None, file |-> None, mkdir |-> FALSE]
     ELSE [ret |-> Some("output_path"),
           file |-> Some(Resize(ImageOpen(dir[frames[Len(frames)]]), upscale_size)),
           mkdir |-> TRUE]

\* create_static_fallback: the same three for the static image
create_static_fallback(dir, upscale_size, frame_index) ==
  LET frames == sorted_glob(dir)
      found == frame_index \in DOMAIN dir
  IN IF ~found /\ Len(frames) = 0
     THEN [ret |-> None, file |-> None, mkdir |-> FALSE]
     ELSE LET frame_file == IF found THEN frame_index ELSE frames[Len(frames)]
          IN [ret |-> Some("output_path"),
              file |-> Some(Resize(ImageOpen(dir[frame_file]), upscale_size)),
              mkdir |-> TRUE]

(***************************************************************************)
(* The codec and the assembler on their own: one call on a directory that   *)
(* holds t_in.pre, with t_in.n frames of size t_in.size.                    *)
(***************************************************************************)
VARIABLES t_pc, t_in, t_dir, t_made, t_paths, t_out, t_ret, t_index

tvars == <<t_pc, t_in, t_dir, t_made, t_paths, t_out, t_ret, t_index>>

\* frame sets met: every size up to the bound
FrameCounts == 0..MaxFrames
\* directories met before the call: none, an empty one, a generated single,
\* a lone frame, a directory whose frame 15 is missing
OldFrame(i, size) == Png(<<"old", i>>, size)
PreDirs(size) ==
  { [i \in S |-> OldFrame(i, size)] : S \in {{}, 0..(FramesPerCall - 1), {3}, {2, 20}} }
\* (frame size, upscale size) pairs met
Sizes == {<<32, 256>>, <<FrameSize, UpscaleSize>>}

\* frame_index arguments met: the default, indices below and above it, the
\* last two-digit index and one past every file
FrameIndices == {0, 3, DefaultFrameIndex, 20, 31, 99, MaxIndex + 1}

InFrames(n, size) == [k \in 1..n |-> encode_image(Png(<<"in", k>>, size))]

TInit ==
  /\ t_pc = "init"
  /\ t_in \in { [n |-> n, offset |-> o, size |-> sz[1], upscale |-> sz[2], pre |-> pre] :
                   n \in FrameCounts, o \in {0, EmoteOffset}, sz \in Sizes,
                   pre \in UNION {PreDirs(z[1]) : z \in Sizes} }
  /\ t_in.pre \in PreDirs(t_in.size)
  /\ t_dir = t_in.pre
  /\ t_made \in IF DOMAIN t_in.pre = {} THEN {{}, {"frame_dir"}} ELSE {{"frame_dir"}}
  /\ t_paths = <<>>
  /\ t_out = None
  /\ t_ret = None
  /\ t_index = DefaultFrameIndex

\* save_frames(frames, output_dir)
CallSaveFrames ==
  /\ t_pc = "init"
  /\ t_in.offset = 0
  /\ t_dir' = save_frames(t_dir, InFrames(t_in.n, t_in.size))
  /\ t_made' = t_made \cup {"frame_dir"}
  /\ t_paths' = saved_paths(InFrames(t_in.n, t_in.size), 0)
  /\ t_pc' = "saved"
  /\ UNCHANGED <<t_in, t_out, t_ret, t_index>>

\* save_frames_offset(frames, output_dir, offset)
CallSaveFramesOffset ==
  /\ t_pc = "init"
  /\ t_dir' = save_frames_offset(t_dir, InFrames(t_in.n, t_in.size), t_in.offset)
  /\ t_made' = t_made \cup {"frame_dir"}
  /\ t_paths' = saved_paths(InFrames(t_in.n, t_in.size), t_in.offset)
  /\ t_pc' = "saved"
  /\ UNCHANGED <<t_in, t_out, t_ret, t_index>>

\* frames_to_gif(frame_dir, output_path, upscale_size, duration_ms)
CallFramesToGif ==
  /\ t_pc \in {"init", "saved"}
  /\ LET r == frames_to_gif(t_dir, t_in.upscale, FrameDurationMs)
     IN /\ t_out' = r.file
        /\ t_ret' = r.ret
        /\ t_made' = IF r.mkdir THEN t_made \cup {"out_parent"} ELSE t_made
  /\ t_pc' = "gif"
  /\ UNCHANGED <<t_in, t_dir, t_paths, t_index>>

\* create_static_fallback(frame_dir, output_path, upscale_size, frame_index)
CallStaticFallback ==
  /\ t_pc \in {"init", "saved"}
  /\ \E frame_index \in FrameIndices :
       LET r == create_static_fallback(t_dir, t_in.upscale, frame_index)
       IN /\ t_out' = r.file
          /\ t_ret' = r.ret
          /\ t_made' = IF r.mkdir THEN t_made \cup {"out_parent"} ELSE t_made
          /\ t_index' = frame_index
  /\ t_pc' = "static"
  /\ UNCHANGED <<t_in, t_dir, t_paths>>

(***************************************************************************)
(* The configuration the orchestrator runs on: a valid config with every    *)
(* kind of entry.  Catalogs are kept in the order of the config file.       *)
(***************************************************************************)
Singles == <<"flame", "liquid">>
\* "orb" has an emote and a cycle but is not configured as a single
Emotes == <<"flame", "orb">>
Chains == <<"melt">>
Journeys == <<"quest">>
Cycles == <<"orbit", "blaze">>

\* the `from` of every step of a chain or journey
Steps(name) ==
  IF name = "melt" THEN <<[from |-> "reference"], [from |-> "liquid"]>>
  ELSE <<[from |-> "ghost"], [from |-> "flame"], [from |-> ""]>>

\* entry["shape"] of a cycle
Shape(name) == IF name = "orbit" THEN "orb" ELSE "flame"

\* the reserved names of the project reference
BaseAliases == {"liquid", "reference", "base"}

Kinds == <<"singles", "emotes", "chains", "journeys", "cycles">>

\* config.<kind>.items(), with no target filter
Items(kind) ==
  CASE kind = "singles" -> Singles
    [] kind = "emotes" -> Emotes
    [] kind = "chains" -> Chains
    [] kind = "journeys" -> Journeys
    [] kind = "cycles" -> Cycles
    [] OTHER -> <<>>

Range(seq) == {seq[k] : k \in 1..Len(seq)}

\* the frame directories of the output tree
SingleNames == Range(Singles) \cup Range(Emotes) \cup {Shape(c) : c \in Range(Cycles)}
                 \cup {"ghost"}
DirKeys ==
  {<<"singles", n>> : n \in SingleNames}
    \cup {<<"chains", n>> : n \in Range(Chains)}
    \cup {<<"journeys", n>> : n \in Range(Journeys)}
    \cup {<<"cycles", n>> : n \in Range(Cycles)}

\* the places a remote call is issued from: (kind, name, step); a cycle's
\* forward call is step 0 and its reverse call step 1
Sites ==
  {<<"singles", n, 0>> : n \in Range(Singles)}
    \cup {<<"emotes", n, 0>> : n \in Range(Emotes)}
    \cup UNION {{<<"chains", n, k - 1>> : k \in 1..Len(Steps(n))} : n \in Range(Chains)}
    \cup UNION {{<<"journeys", n, k - 1>> : k \in 1..Len(Steps(n))} : n \in Range(Journeys)}
    \cup {<<"cycles", n, k>> : n \in Range(Cycles), k \in {0, 1}}

ItemKeys == UNION {{<<Kinds[j], n>> : n \in Range(Items(Kinds[j]))} : j \in 1..Len(Kinds)}

(***************************************************************************)
(* The parsed configuration (config.py).  A prompt is kept as whether it is *)
(* there (truthy); a missing shape is the empty string.                     *)
(***************************************************************************)
RECURSIVE Concat(_)
Concat(ss) == IF ss = <<>> THEN <<>> ELSE Head(ss) \o Concat(Tail(ss))

RECURSIVE Sum(_)
Sum(ns) == IF ns = <<>> THEN 0 ELSE Head(ns) + Sum(Tail(ns))

Error(at, name, i, what) == [at |-> at, name |-> name, step |-> i, what |-> what]

\* the errors of the steps of a chain or journey
StepErrors(at, entry) ==
  (IF Len(entry.steps) < 2 THEN <<Error(at, entry.name, 0, "steps")>> ELSE <<>>)
    \o Concat([i \in 1..Len(entry.steps) |->
                 IF entry.steps[i].prompt THEN <<>>
                 ELSE <<Error(at, entry.name, i - 1, "prompt")>>])

\* PipelineConfig.validate: the list of errors, empty when the config is valid
validate(c) ==
  (IF c.reference_exists THEN <<>> ELSE <<Error("project", "", 0, "reference")>>)
    \o (IF c.frame_size < 16 \/ c.frame_size > 256
        THEN <<Error("project", "", 0, "frame_size")>> ELSE <<>>)
    \o (IF c.upscale_size < c.frame_size
        THEN <<Error("project", "", 0, "upscale_size")>> ELSE <<>>)
    \o (IF c.frame_duration_ms < 10
        THEN <<Error("project", "", 0, "frame_duration_ms")>> ELSE <<>>)
    \o Concat([k \in 1..Len(c.singles) |->
                 IF c.singles[k].prompt THEN <<>>
                 ELSE <<Error("singles", c.singles[k].name, 0, "prompt")>>])
    \o Concat([k \in 1..Len(c.emotes) |->
                 IF c.emotes[k].prompt THEN <<>>
                 ELSE <<Error("emotes", c.emotes[k].name, 0, "prompt")>>])
    \o Concat([k \in 1..Len(c.chains) |-> StepErrors("chains", c.chains[k])])
    \o Concat([k \in 1..Len(c.journeys) |-> StepErrors("journeys", c.journeys[k])])
    \o Concat([k \in 1..Len(c.cycles) |->
                 (IF c.cycles[k].shape # "" THEN <<>>
                  ELSE <<Error("cycles", c.cycles[k].name, 0, "shape")>>)
                   \o (IF c.cycles[k].forward_prompt THEN <<>>
                       ELSE <<Error("cycles", c.cycles[k].name, 0, "forward_prompt")>>)
                   \o (IF c.cycles[k].reverse_prompt THEN <<>>
                       ELSE <<Error("cycles", c.cycles[k].name, 0, "reverse_prompt")>>)])

\* count_animations counting a chain or journey as one call
count_animations_per_entry(c) ==
  LET counts == [singles |-> Len(c.singles),
                 emotes |-> Len(c.emotes),
                 chains |-> Len(c.chains),
                 journeys |-> Len(c.journeys),
                 cycles |-> Len(c.cycles)]
  IN [singles |-> counts.singles, emotes |-> counts.emotes, chains |-> counts.chains,
      journeys |-> counts.journeys, cycles |-> counts.cycles,
      total_api_calls |-> counts.singles + counts.emotes + counts.chains
                            + counts.journeys + counts.cycles]

\* PipelineConfig.count_animations
count_animations(c) ==
  LET counts == [singles |-> Len(c.singles),
                 emotes |-> Len(c.emotes),
                 chains |-> Sum([k \in 1..Len(c.chains) |-> Len(c.chains[k].steps)]),
                 journeys |-> Sum([k \in 1..Len(c.journeys) |-> Len(c.journeys[k].steps)]),
                 cycles |-> Len(c.cycles)]
  IN [singles |-> counts.singles, emotes |-> counts.emotes, chains |-> counts.chains,
      journeys |-> counts.journeys, cycles |-> counts.cycles,
      total_api_calls |-> counts.singles + counts.emotes + counts.chains
                            + counts.journeys + counts.cycles]

\* PipelineConfig.estimate_cost, in cents
estimate_cost(c) == count_animations(c).total_api_calls * CallCost

\* the config the orchestrator runs on, as parsed
ValidConfig ==
  [reference_exists |-> TRUE,
   frame_size |-> FrameSize, upscale_size |-> UpscaleSize,
   frame_duration_ms |-> FrameDurationMs,
   singles |-> [k \in 1..Len(Singles) |-> [name |-> Singles[k], prompt |-> TRUE]],
   emotes |-> [k \in 1..Len(Emotes) |-> [name |-> Emotes[k], prompt |-> TRUE]],
   chains |-> [k \in 1..Len(Chains) |->
                 [name |-> Chains[k],
                  steps |-> [j \in 1..Len(Steps(Chains[k])) |->
                               [from |-> Steps(Chains[k])[j].from, prompt |-> TRUE]]]],
   journeys |-> [k \in 1..Len(Journeys) |->
                   [name |-> Journeys[k],
                    steps |-> [j \in 1..Len(Steps(Journeys[k])) |->
                                 [from |-> Steps(Journeys[k])[j].from, prompt |-> TRUE]]]],
   cycles |-> [k \in 1..Len(Cycles) |->
                 [name |-> Cycles[k], shape |-> Shape(Cycles[k]),
                  forward_prompt |-> TRUE, reverse_prompt |-> TRUE]]]

\* configs that validate rejects, one defect each
InvalidConfigs ==
  { [ValidConfig EXCEPT !.reference_exists = FALSE],
    [ValidConfig EXCEPT !.frame_size = 8],
    [ValidConfig EXCEPT !.frame_size = 512],
    [ValidConfig EXCEPT !.upscale_size = 32],
    [ValidConfig EXCEPT !.frame_duration_ms = 5],
    [ValidConfig EXCEPT !.singles[1].prompt = FALSE],
    [ValidConfig EXCEPT !.emotes[2].prompt = FALSE],
    [ValidConfig EXCEPT !.chains[1].steps = <<[from |-> "reference", prompt |-> TRUE]>>],
    [ValidConfig EXCEPT !.journeys[1].steps[2].prompt = FALSE],
    [ValidConfig EXCEPT !.cycles[1].shape = ""],
    [ValidConfig EXCEPT !.cycles[2].reverse_prompt = FALSE],
    [ValidConfig EXCEPT !.cycles[2].forward_prompt = FALSE, !.singles[2].prompt = FALSE] }

\* an entry the YAML file gives no value ("flame:" and nothing after it)
NullEntry(name) == [name |-> name, null |-> TRUE]
IsMapping(entry) == "null" \notin DOMAIN entry

\* configs with an entry that is not a mapping, alone or beside another defect
MalformedConfigs ==
  { [ValidConfig EXCEPT !.singles[1] = NullEntry("flame")],
    [ValidConfig EXCEPT !.emotes[2] = NullEntry("orb"), !.frame_size = 8],
    [ValidConfig EXCEPT !.cycles[2] = NullEntry("blaze")] }

\* a call of validate as Python evaluates it: entry.get raises AttributeError
\* on the first entry of singles, emotes or cycles that is not a mapping, and
\* the errors collected before it are lost
validate_call(c) ==
  IF \E catalog \in {c.singles, c.emotes, c.cycles} :
       \E k \in 1..Len(catalog) : ~IsMapping(catalog[k])
  THEN [raised |-> "AttributeError", errors |-> <<>>]
  ELSE [raised |-> "", errors |-> validate(c)]

\* catalogs of every size up to MaxEntries, for the functions of the config
MaxEntries == 2
EntryNames == <<"flame", "liquid", "orb", "ghost">>
StepLists == {<<>>, <<2>>, <<3>>, <<2, 3>>, <<1>>, <<0, 2>>}
MkEntries(n) == [k \in 1..n |-> [name |-> EntryNames[k], prompt |-> TRUE]]
MkSequences(lens) ==
  [k \in 1..Len(lens) |->
     [name |-> EntryNames[k],
      steps |-> [j \in 1..lens[k] |-> [from |-> "", prompt |-> TRUE]]]]
MkCycles(n) ==
  [k \in 1..n |-> [name |-> EntryNames[k], shape |-> "flame",
                   forward_prompt |-> TRUE, reverse_prompt |-> TRUE]]
CountedConfigs ==
  { [ValidConfig EXCEPT !.singles = MkEntries(ns), !.emotes = MkEntries(ne),
                        !.chains = MkSequences(cs), !.journeys = MkSequences(js),
                        !.cycles = MkCycles(nc)] :
      ns \in 0..MaxEntries, ne \in 0..MaxEntries, cs \in StepLists, js \in StepLists,
      nc \in 0..MaxEntries }

\* what yaml.safe_load found in a mapping: the keys present, and under them
\* the values of `value`; value.reference_exists tells whether the file that
\* project.reference names exists
NoData == [keys |-> {}, value |-> ValidConfig]
ConfigKeys ==
  {"name", "frame_size", "upscale_size", "frame_duration_ms",
   "singles", "emotes", "chains", "journeys", "cycles"}
KeySets ==
  {ConfigKeys, {"name"}, {"name", "frame_size", "singles"}, ConfigKeys \ {"upscale_size"}}

\* the files load_config is called on: a missing one, an empty one, one that
\* holds a sequence, one that holds an empty mapping, and mappings
ConfigFiles ==
  {[exists |-> FALSE, kind |-> "empty", data |-> NoData],
   [exists |-> TRUE, kind |-> "empty", data |-> NoData],
   [exists |-> TRUE, kind |-> "sequence", data |-> NoData],
   [exists |-> TRUE, kind |-> "mapping", data |-> NoData]}
    \cup {[exists |-> TRUE, kind |-> "mapping", data |-> [keys |-> keys, value |-> c]] :
            keys \in KeySets, c \in {ValidConfig} \cup InvalidConfigs}

\* data.get(key, default), project.get(key, default)
Get(data, key, default) == IF key \in data.keys THEN data.value[key] ELSE default

\* PipelineConfig(data, config_dir)
PipelineConfig(data) ==
  [reference_exists |-> data.value.reference_exists,
   frame_size |-> Get(data, "frame_size", FrameSize),
   upscale_size |-> Get(data, "upscale_size", UpscaleSize),
   frame_duration_ms |-> Get(data, "frame_duration_ms", FrameDurationMs),
   singles |-> Get(data, "singles", <<>>),
   emotes |-> Get(data, "emotes", <<>>),
   chains |-> Get(data, "chains", <<>>),
   journeys |-> Get(data, "journeys", <<>>),
   cycles |-> Get(data, "cycles", <<>>)]

\* load_config: what it raises, or the config it returns
load_config(file) ==
  IF ~file.exists THEN [raised |-> "FileNotFoundError", config |-> None]
  ELSE IF file.kind # "mapping" \/ file.data.keys = {}
       THEN [raised |-> "ValueError", config |-> None]
       ELSE [raised |-> "", config |-> Some(PipelineConfig(file.data))]

VARIABLES
  config,   \* the PipelineConfig load_config returned
  c_pc,     \* which function of the config was called, if any
  c_ret,    \* what it returned
  args      \* the parsed command line: args.target, the names asked for

cvars == <<config, c_pc, c_ret, args>>

\* no --target on the command line
NoArgs == [target |-> {}]

NoReturn ==
  [counts |-> count_animations(ValidConfig), cost |-> 0, errors |-> <<>>,
   raised |-> "", file |-> [exists |-> FALSE, kind |-> "empty", data |-> NoData],
   loaded |-> None]

\* the functions of the config at rest
CIdle == c_pc = "off" /\ c_ret = NoReturn /\ args = NoArgs

CInit ==
  /\ config \in CountedConfigs \cup InvalidConfigs \cup MalformedConfigs
  /\ c_pc = "init" /\ c_ret = NoReturn /\ args = NoArgs

\* config.count_animations()
CallCountAnimations ==
  /\ c_pc = "init"
  /\ c_ret' = [c_ret EXCEPT !.counts = count_animations(config)]
  /\ c_pc' = "counted"
  /\ UNCHANGED <<config, args>>

\* config.estimate_cost()
CallEstimateCost ==
  /\ c_pc = "init"
  /\ c_ret' = [c_ret EXCEPT !.cost = estimate_cost(config)]
  /\ c_pc' = "estimated"
  /\ UNCHANGED <<config, args>>

\* config.validate()
CallValidate ==
  /\ c_pc = "init"
  /\ LET r == validate_call(config)
     IN c_ret' = [c_ret EXCEPT !.errors = r.errors, !.raised = r.raised]
  /\ c_pc' = "validated"
  /\ UNCHANGED <<config, args>>

\* load_config(config_path) on one of the files
CallLoadConfig ==
  /\ c_pc = "init"
  /\ \E file \in ConfigFiles :
       LET r == load_config(file)
       IN c_ret' = [c_ret EXCEPT !.file = file, !.raised = r.raised, !.loaded = r.config]
  /\ c_pc' = "loaded"
  /\ UNCHANGED <<config, args>>

(***************************************************************************)
(* State of the orchestrator.                                               *)
(***************************************************************************)
VARIABLES
  run,            \* invocations of cmd_generate so far
  phase,          \* the generate_* function running, or how the run ended
  idx,            \* position of the loop of that function in its items
  sub,            \* place inside the loop body: "head", "step", "finish", "reverse"
  step,           \* step_idx + 1 inside a chain or journey
  all_frames,     \* all_frames of the chain or journey in progress
  forward_frames, \* forward_frames of the cycle in progress (frame indices)
  dirs,           \* the frame directories that exist
  disk,           \* the frame files of every frame directory
  gif,            \* <kind>/<name>.gif
  static,         \* static/<name>.png
  total_cost,     \* total_cost of cmd_generate, in cents
  kind_cost,      \* total_cost of the generate_* function running
  calls,          \* per site, the outcomes of the remote calls of this run
  last_call,      \* the last remote call: its site, its reference, the pause after it
  written,        \* per directory, the frame indices written in this run
  cost_of,        \* per item, the cost this run added for it
  paid,           \* sum of the costs returned by the calls that succeeded in this run
  budget,         \* faults the environment may still inject
  run_faults,     \* faults injected in this run
  prev_clean      \* the run before this one ended normally without a fault

ovars == <<run, phase, idx, sub, step, all_frames, forward_frames, dirs, disk, gif,
           static, total_cost, kind_cost, calls, last_call, written, cost_of, paid,
           budget, run_faults, prev_clean>>

\* the variables the orchestrator leaves alone
hvars == <<tvars, cvars>>

vars == <<tvars, ovars, cvars>>

\* config.reference, a frame-size PNG
ReferenceBytes == Png(<<0, "reference", "", 0, 0>>, FrameSize)
\* a reference image handed to the remote call: where it is, and its bytes when
\* the file is there
ProjectRef ==
  [t |-> "project", dir |-> <<"", "">>, idx |-> 0, bytes |-> Some(ReferenceBytes)]
FileRef(key, i, dir) ==
  [t |-> "file", dir |-> key, idx |-> i,
   bytes |-> IF i \in DOMAIN dir THEN Some(dir[i]) ELSE None]
TmpRef(bytes) == [t |-> "tmp", dir |-> <<"", "">>, idx |-> 0, bytes |-> Some(bytes)]

NoCall == [site |-> <<"", "", 0>>, ref |-> ProjectRef, slept |-> FALSE]

\* generate_animation when the service answers: 16 frames of the asked size
RemoteFrames(site) ==
  [i \in 1..FramesPerCall |->
     encode_image(Png(<<run, site[1], site[2], site[3], i - 1>>, FrameSize))]

\* what can happen to a remote call followed by the saving of n frames: the
\* call fails; all is saved; saving raises at frame `at` (OSError); the run is
\* interrupted after `at` frames are written
Outcomes(n) ==
  {[t |-> "ok", at |-> n, env |-> FALSE]}
    \cup (IF budget.fail > 0 THEN {[t |-> "fail", at |-> 0, env |-> TRUE]} ELSE {})
    \cup (IF budget.ioerr > 0
          THEN {[t |-> "ioerr", at |-> j, env |-> TRUE] : j \in 0..(n - 1)} ELSE {})
    \cup (IF budget.intr > 0
          THEN {[t |-> "intr", at |-> j, env |-> TRUE] : j \in 0..n} ELSE {})

\* generate_animation reads the reference first (encode_image): with the file
\* missing the call raises before anything is sent
RemoteOutcomes(ref, n) ==
  IF ref.bytes = None THEN {[t |-> "fail", at |-> 0, env |-> FALSE]} ELSE Outcomes(n)

\* what can happen to a remote call on its own
CallOutcomes(ref) == {o \in RemoteOutcomes(ref, 0) : o.t \in {"ok", "fail"}}

\* what can happen to the saving of n frames on its own
SaveOutcomes(n) == {o \in Outcomes(n) : o.t # "fail"}

OInit ==
  /\ run = 0
  /\ phase = "idle"
  /\ idx = 1
  /\ sub = "head"
  /\ step = 0
  /\ all_frames = <<>>
  /\ forward_frames = <<>>
  /\ dirs = {}
  /\ disk = [k \in DirKeys |-> EmptyDir]
  /\ gif = [k \in DirKeys |-> None]
  /\ static = [n \in {k[2] : k \in DirKeys} |-> None]
  /\ total_cost = 0
  /\ kind_cost = 0
  /\ calls = [s \in Sites |-> <<>>]
  /\ last_call = NoCall
  /\ written = [k \in DirKeys |-> {}]
  /\ cost_of = [k \in ItemKeys |-> 0]
  /\ paid = 0
  /\ run_faults = 0
  /\ prev_clean = FALSE

\* the codec harness at rest
TIdle ==
  /\ t_pc = "off"
  /\ t_in = [n |-> 0, offset |-> 0, size |-> FrameSize, upscale |-> UpscaleSize,
             pre |-> EmptyDir]
  /\ t_dir = EmptyDir
  /\ t_made = {}
  /\ t_paths = <<>>
  /\ t_out = None
  /\ t_ret = None
  /\ t_index = DefaultFrameIndex

\* a remote call from `site` with reference `ref`
Remote(site, ref, ok, slept) ==
  /\ calls' = [calls EXCEPT ![site] = Append(@, IF ok THEN "ok" ELSE "fail")]
  /\ last_call' = [site |-> site, ref |-> ref, slept |-> slept]
  /\ paid' = paid + (IF ok THEN CallCost ELSE 0)

\* the environment spends the fault of the outcome, if it is one
Fault(out) ==
  /\ budget' = IF out.env THEN [budget EXCEPT ![out.t] = @ - 1] ELSE budget
  /\ run_faults' = IF out.t = "ok" THEN run_faults ELSE run_faults + 1

\* total_cost += cost, for the item of the loop
AddCost(item, yes) ==
  /\ kind_cost' = IF yes THEN kind_cost + CallCost ELSE kind_cost
  /\ cost_of' = IF yes THEN [cost_of EXCEPT ![item] = @ + CallCost] ELSE cost_of

\* the first n frames are written to the directory `key`, created if absent
Save(key, frames, offset, n) ==
  /\ disk' = [disk EXCEPT ![key] = WriteFrames(@, frames, offset, n)]
  /\ dirs' = dirs \cup {key}
  /\ written' = [written EXCEPT ![key] = @ \cup {offset + k - 1 : k \in 1..n}]

\* a variant of _has_frames that asks for more than min_count files
has_frames_more_than(key, min_count) ==
  key \in dirs /\ Cardinality(DOMAIN disk[key]) > min_count

\* _has_frames(directory, min_count)
has_frames(key, min_count) ==
  key \in dirs /\ Cardinality(DOMAIN disk[key]) >= min_count

\* _assemble_animation(config, frame_dir, name) on a directory holding `dir`
assemble_animation(dir, key) ==
  LET g == frames_to_gif(dir, UpscaleSize, FrameDurationMs)
      f == create_static_fallback(dir, UpscaleSize, DefaultFrameIndex)
  IN /\ gif' = [gif EXCEPT ![key] = IF g.file = None THEN @ ELSE g.file]
     /\ static' = [static EXCEPT ![key[2]] = IF f.file = None THEN @ ELSE f.file]

\* what the command returns
exit_status ==
  CASE phase = "done" -> Some(0)
    [] phase \in {"rejected", "crashed"} -> Some(1)
    [] phase = "interrupted" -> Some(130)
    [] OTHER -> None

\* the loop giving up the run when a call fails
Continue_fatal(t) ==
  /\ phase' = IF t = "intr" THEN "interrupted"
              ELSE IF t \in {"crash", "fail"} THEN "crashed" ELSE phase
  /\ idx' = IF t \in {"intr", "crash", "fail"} THEN idx ELSE idx + 1

\* how the loop goes on after an item: to the next item, or the run is over
Continue(t) ==
  /\ phase' = IF t = "intr" THEN "interrupted" ELSE IF t = "crash" THEN "crashed" ELSE phase
  /\ idx' = IF t \in {"intr", "crash"} THEN idx ELSE idx + 1

\* the items every generate_* function would loop over if none took targets
Selected_unfiltered(kind) == Items(kind)

\* the items a generate_* function loops over: cmd_generate hands args.target
\* to generate_singles, generate_emotes and generate_journeys, which keep the
\* items named in it when it is not empty
Selected(kind) ==
  IF kind \in {"singles", "emotes", "journeys"} /\ args.target # {}
  THEN SelectSeq(Items(kind), LAMBDA name : name \in args.target)
  ELSE Items(kind)

\* cmd_generate going on to generate whatever validate returned
cmd_generate_unvalidated ==
  /\ phase \in {"idle", "done", "interrupted", "crashed", "rejected"}
  /\ run < MaxRuns
  /\ run' = run + 1
  /\ phase' = "singles"
  /\ idx' = 1
  /\ sub' = "head"
  /\ step' = 0
  /\ all_frames' = <<>>
  /\ forward_frames' = <<>>
  /\ total_cost' = 0
  /\ kind_cost' = 0
  /\ calls' = [s \in Sites |-> <<>>]
  /\ last_call' = NoCall
  /\ written' = [k \in DirKeys |-> {}]
  /\ cost_of' = [k \in ItemKeys |-> 0]
  /\ paid' = 0
  /\ run_faults' = 0
  /\ prev_clean' = (phase = "done" /\ run_faults = 0)
  /\ UNCHANGED <<dirs, disk, gif, static, budget, hvars>>

\* cmd_generate, up to its first generate_* call: with validation errors it
\* returns 1 before anything else
cmd_generate ==
  /\ phase \in {"idle", "done", "interrupted", "crashed", "rejected"}
  /\ run < MaxRuns
  /\ run' = run + 1
  /\ phase' = IF validate(config) # <<>> THEN "rejected" ELSE "singles"
  /\ idx' = 1
  /\ sub' = "head"
  /\ step' = 0
  /\ all_frames' = <<>>
  /\ forward_frames' = <<>>
  /\ total_cost' = 0
  /\ kind_cost' = 0
  /\ calls' = [s \in Sites |-> <<>>]
  /\ last_call' = NoCall
  /\ written' = [k \in DirKeys |-> {}]
  /\ cost_of' = [k \in ItemKeys |-> 0]
  /\ paid' = 0
  /\ run_faults' = 0
  /\ prev_clean' = (phase = "done" /\ run_faults = 0)
  /\ UNCHANGED <<dirs, disk, gif, static, budget, hvars>>

\* cmd_generate calling generate_emotes after generate_cycles
kind_return_emotes_last ==
  /\ phase \in Range(Kinds)
  /\ sub = "head"
  /\ idx > Len(Selected(phase))
  /\ total_cost' = total_cost + kind_cost
  /\ kind_cost' = 0
  /\ phase' = CASE phase = "singles" -> "chains"
                [] phase = "chains" -> "journeys"
                [] phase = "journeys" -> "cycles"
                [] phase = "cycles" -> "emotes"
                [] OTHER -> "done"
  /\ idx' = 1
  /\ UNCHANGED <<run, sub, step, all_frames, forward_frames, dirs, disk, gif, static,
                 calls, last_call, written, cost_of, paid, budget, run_faults,
                 prev_clean, hvars>>

\* a generate_* function returns its total and cmd_generate adds it and goes on
\* to the next kind, or prints the total
kind_return ==
  /\ phase \in Range(Kinds)
  /\ sub = "head"
  /\ idx > Len(Selected(phase))
  /\ total_cost' = total_cost + kind_cost
  /\ kind_cost' = 0
  /\ phase' = IF phase = "cycles" THEN "done"
              ELSE Kinds[(CHOOSE j \in 1..Len(Kinds) : Kinds[j] = phase) + 1]
  /\ idx' = 1
  /\ UNCHANGED <<run, sub, step, all_frames, forward_frames, dirs, disk, gif, static,
                 calls, last_call, written, cost_of, paid, budget, run_faults,
                 prev_clean, hvars>>

\* one pass of the loop of generate_singles
generate_singles ==
  /\ phase = "singles"
  /\ idx <= Len(Selected("singles"))
  /\ LET name == Selected("singles")[idx]
         key == <<"singles", name>>
         site == <<"singles", name, 0>>
     IN IF has_frames(key, MinCount)
        THEN /\ idx' = idx + 1
             /\ UNCHANGED <<phase, dirs, disk, gif, static, kind_cost, calls, last_call,
                            written, cost_of, paid, budget, run_faults>>
        ELSE \E out \in RemoteOutcomes(ProjectRef, FramesPerCall) :
               LET frames == RemoteFrames(site)
                   ok == out.t # "fail"
               IN /\ Remote(site, ProjectRef, ok, out.t = "ok")
                  /\ Fault(out)
                  /\ IF ok THEN Save(key, frames, 0, out.at)
                     ELSE UNCHANGED <<disk, dirs, written>>
                  /\ AddCost(<<"singles", name>>, out.t = "ok")
                  /\ IF out.t = "ok"
                     THEN assemble_animation(save_frames(disk[key], frames), key)
                     ELSE UNCHANGED <<gif, static>>
                  /\ Continue(out.t)
  /\ UNCHANGED <<run, sub, step, all_frames, forward_frames, total_cost, prev_clean, hvars>>

\* the emote loop going on without a look at frame_15.png
emote_reference_unchecked(key) == FALSE

\* not ref_frame.exists()
emote_reference_missing(key) == DefaultFrameIndex \notin DOMAIN disk[key]

\* the emote loop going on without a look at frame_16.png
emote_frames_unchecked(key) == FALSE

\* (frame_dir / "frame_16.png").exists()
emote_frames_exist(key) == EmoteOffset \in DOMAIN disk[key]

\* one pass of the loop of generate_emotes
generate_emotes ==
  /\ phase = "emotes"
  /\ idx <= Len(Selected("emotes"))
  /\ LET name == Selected("emotes")[idx]
         key == <<"singles", name>>
         site == <<"emotes", name, 0>>
         ref_frame == FileRef(key, DefaultFrameIndex, disk[key])
     IN IF emote_reference_missing(key) \/ emote_frames_exist(key)
        THEN /\ idx' = idx + 1
             /\ UNCHANGED <<phase, dirs, disk, gif, static, kind_cost, calls, last_call,
                            written, cost_of, paid, budget, run_faults>>
        ELSE \E out \in RemoteOutcomes(ref_frame, FramesPerCall) :
               LET frames == RemoteFrames(site)
                   ok == out.t # "fail"
               IN /\ Remote(site, ref_frame, ok, out.t = "ok")
                  /\ Fault(out)
                  /\ IF ok THEN Save(key, frames, EmoteOffset, out.at)
                     ELSE UNCHANGED <<disk, dirs, written>>
                  /\ AddCost(<<"emotes", name>>, out.t = "ok")
                  /\ IF out.t = "ok"
                     THEN assemble_animation(
                            save_frames_offset(disk[key], frames, EmoteOffset), key)
                     ELSE UNCHANGED <<gif, static>>
                  /\ Continue(out.t)
  /\ UNCHANGED <<run, sub, step, all_frames, forward_frames, total_cost, prev_clean, hvars>>

\* the frames of singles/<name>, empty when the directory is not there
SingleDir(name) ==
  IF <<"singles", name>> \in DirKeys THEN disk[<<"singles", name>>] ELSE EmptyDir

\* the resolver looking for the single before the base aliases
resolve_step_reference_single_first(st, previous_frames) ==
  LET from_shape == st.from
      shape_dir == SingleDir(from_shape)
  IN IF from_shape # "" /\ DefaultFrameIndex \in DOMAIN shape_dir
     THEN FileRef(<<"singles", from_shape>>, DefaultFrameIndex, shape_dir)
     ELSE IF from_shape = "" \/ from_shape \in BaseAliases
     THEN ProjectRef
     ELSE IF previous_frames # <<>>
     THEN TmpRef(b64decode(previous_frames[Len(previous_frames)].base64))
     ELSE ProjectRef

\* the resolver preferring the frames in hand to a finished single
resolve_step_reference_previous_first(st, previous_frames) ==
  LET from_shape == st.from
      shape_dir == SingleDir(from_shape)
  IN IF from_shape = "" \/ from_shape \in BaseAliases
     THEN ProjectRef
     ELSE IF previous_frames # <<>>
     THEN TmpRef(b64decode(previous_frames[Len(previous_frames)].base64))
     ELSE IF DefaultFrameIndex \in DOMAIN shape_dir
     THEN FileRef(<<"singles", from_shape>>, DefaultFrameIndex, shape_dir)
     ELSE ProjectRef

\* _resolve_step_reference(config, step, previous_frames)
resolve_step_reference(st, previous_frames) ==
  LET from_shape == st.from
      shape_dir == SingleDir(from_shape)
  IN IF from_shape = "" \/ from_shape \in BaseAliases
     THEN ProjectRef
     ELSE IF DefaultFrameIndex \in DOMAIN shape_dir
     THEN FileRef(<<"singles", from_shape>>, DefaultFrameIndex, shape_dir)
     ELSE IF previous_frames # <<>>
     THEN TmpRef(b64decode(previous_frames[Len(previous_frames)].base64))
     ELSE ProjectRef

\* frames expected of one step of a chain or journey
StepFrames == 16

\* the head of the loop taking up a partial sequence at the step it stopped at
seq_begin_resume(kind) ==
  /\ phase = kind
  /\ sub = "head"
  /\ idx <= Len(Selected(kind))
  /\ LET name == Selected(kind)[idx]
         key == <<kind, name>>
         steps == Steps(name)
         expected_frames == Len(steps) * StepFrames
         on_disk == sorted_glob(disk[key])
     IN IF has_frames(key, expected_frames)
        THEN /\ idx' = idx + 1
             /\ all_frames' = <<>>
             /\ UNCHANGED <<sub, step, dirs>>
        ELSE /\ dirs' = dirs \cup {key}
             /\ sub' = IF Len(steps) = 0 THEN "finish" ELSE "step"
             /\ step' = (Len(on_disk) \div StepFrames) + 1
             /\ all_frames' = [k \in 1..Len(on_disk) |-> encode_image(disk[key][on_disk[k]])]
             /\ idx' = idx
  /\ UNCHANGED <<run, phase, forward_frames, disk, gif, static, total_cost, kind_cost,
                 calls, last_call, written, cost_of, paid, budget, run_faults,
                 prev_clean, hvars>>

\* generate_chains, generate_journeys: the head of the loop over the sequences
seq_begin(kind) ==
  /\ phase = kind
  /\ sub = "head"
  /\ idx <= Len(Selected(kind))
  /\ LET name == Selected(kind)[idx]
         key == <<kind, name>>
         steps == Steps(name)
         expected_frames == Len(steps) * StepFrames
     IN IF has_frames(key, expected_frames)
        THEN /\ idx' = idx + 1
             /\ UNCHANGED <<sub, step, dirs>>
        ELSE /\ dirs' = dirs \cup {key}
             /\ sub' = IF Len(steps) = 0 THEN "finish" ELSE "step"
             /\ step' = 1
             /\ idx' = idx
  /\ all_frames' = <<>>
  /\ UNCHANGED <<run, phase, forward_frames, disk, gif, static, total_cost, kind_cost,
                 calls, last_call, written, cost_of, paid, budget, run_faults,
                 prev_clean, hvars>>

\* the steps loop going on to the next step after a failed call
after_step_continue(ok, k, n) ==
  [step |-> k + 1, sub |-> IF k < n THEN "step" ELSE "finish"]

\* the steps loop calling a failed step again
after_step_retry(ok, k, n) ==
  [step |-> IF ok THEN k + 1 ELSE k,
   sub |-> IF ~ok THEN "step" ELSE IF k < n THEN "step" ELSE "finish"]

\* where the steps loop goes after step k of n: on to the next step, or out of
\* the loop when the call failed (break) or the steps are used up
after_step(ok, k, n) ==
  [step |-> IF ok THEN k + 1 ELSE k, sub |-> IF ok /\ k < n THEN "step" ELSE "finish"]

\* one pass of the loop over the steps
seq_step(kind) ==
  /\ phase = kind
  /\ sub = "step"
  /\ LET name == Selected(kind)[idx]
         steps == Steps(name)
         site == <<kind, name, step - 1>>
         ref == resolve_step_reference(steps[step], all_frames)
     IN \E out \in CallOutcomes(ref) :
          LET ok == out.t = "ok"
          IN /\ Remote(site, ref, ok, ok)
             /\ Fault(out)
             /\ all_frames' = IF ok THEN all_frames \o RemoteFrames(site) ELSE all_frames
             /\ AddCost(<<kind, name>>, ok)
             /\ step' = after_step(ok, step, Len(steps)).step
             /\ sub' = after_step(ok, step, Len(steps)).sub
  /\ UNCHANGED <<run, phase, idx, forward_frames, dirs, disk, gif, static, total_cost,
                 written, prev_clean, hvars>>

\* after the steps: persist what was produced and assemble it
seq_finish(kind) ==
  /\ phase = kind
  /\ sub = "finish"
  /\ LET name == Selected(kind)[idx]
         key == <<kind, name>>
     IN IF all_frames = <<>>
        THEN /\ Continue("ok")
             /\ UNCHANGED <<dirs, disk, written, gif, static, budget, run_faults>>
        ELSE \E out \in SaveOutcomes(Len(all_frames)) :
               /\ Fault(out)
               /\ Save(key, all_frames, 0, out.at)
               /\ IF out.t = "ok"
                  THEN assemble_animation(save_frames(disk[key], all_frames), key)
                  ELSE UNCHANGED <<gif, static>>
               /\ Continue(IF out.t = "ioerr" THEN "crash" ELSE out.t)
  /\ sub' = "head"
  /\ step' = 0
  /\ all_frames' = <<>>
  /\ UNCHANGED <<run, forward_frames, total_cost, kind_cost, calls, last_call, cost_of,
                 paid, prev_clean, hvars>>

generate_chains == seq_begin("chains") \/ seq_step("chains") \/ seq_finish("chains")

generate_journeys ==
  seq_begin("journeys") \/ seq_step("journeys") \/ seq_finish("journeys")

\* generate_cycles: the loop body up to the reverse call
cycle_forward ==
  /\ phase = "cycles"
  /\ sub = "head"
  /\ idx <= Len(Selected("cycles"))
  /\ LET name == Selected("cycles")[idx]
         key == <<"cycles", name>>
         forward_dir == <<"singles", Shape(name)>>
         found == IF forward_dir \in dirs THEN sorted_glob(disk[forward_dir]) ELSE <<>>
         site == <<"cycles", name, 0>>
     IN IF has_frames(key, CycleMinCount)
        THEN /\ idx' = idx + 1
             /\ UNCHANGED <<phase, sub, forward_frames, dirs, disk, kind_cost, calls,
                            last_call, written, cost_of, paid, budget, run_faults>>
        ELSE IF found # <<>>
        THEN /\ forward_frames' = found
             /\ sub' = "reverse"
             /\ UNCHANGED <<phase, idx, dirs, disk, kind_cost, calls, last_call, written,
                            cost_of, paid, budget, run_faults>>
        ELSE \E out \in RemoteOutcomes(ProjectRef, FramesPerCall) :
               LET frames == RemoteFrames(site)
                   ok == out.t # "fail"
               IN /\ Remote(site, ProjectRef, ok, out.t = "ok")
                  /\ Fault(out)
                  /\ IF ok THEN Save(forward_dir, frames, 0, out.at)
                     ELSE UNCHANGED <<disk, dirs, written>>
                  /\ AddCost(<<"cycles", name>>, out.t = "ok")
                  /\ forward_frames' =
                       IF out.t = "ok" THEN sorted_glob(save_frames(disk[forward_dir], frames))
                       ELSE <<>>
                  /\ sub' = IF out.t = "ok" THEN "reverse" ELSE "head"
                  /\ IF out.t = "ok" THEN UNCHANGED <<phase, idx>> ELSE Continue(out.t)
  /\ UNCHANGED <<run, step, all_frames, gif, static, total_cost, prev_clean, hvars>>

\* generate_cycles: the reverse call, the combined frames, the assembly
cycle_reverse ==
  /\ phase = "cycles"
  /\ sub = "reverse"
  /\ LET name == Selected("cycles")[idx]
         key == <<"cycles", name>>
         forward_dir == <<"singles", Shape(name)>>
         last_frame == forward_frames[Len(forward_frames)]
         ref == FileRef(forward_dir, last_frame, disk[forward_dir])
         site == <<"cycles", name, 1>>
     IN \E out \in RemoteOutcomes(ref, Len(forward_frames) + FramesPerCall) :
          LET reverse_frames == RemoteFrames(site)
              ok == out.t # "fail"
              combined == [k \in 1..Len(forward_frames) |->
                             encode_image(disk[forward_dir][forward_frames[k]])]
                            \o reverse_frames
          IN /\ Remote(site, ref, ok, ok)
             /\ Fault(out)
             /\ AddCost(<<"cycles", name>>, ok)
             /\ IF ok THEN Save(key, combined, 0, out.at)
                ELSE UNCHANGED <<disk, dirs, written>>
             /\ IF out.t = "ok"
                THEN assemble_animation(save_frames(disk[key], combined), key)
                ELSE UNCHANGED <<gif, static>>
             /\ Continue(IF out.t = "ioerr" THEN "crash" ELSE out.t)
  /\ sub' = "head"
  /\ forward_frames' = <<>>
  /\ UNCHANGED <<run, step, all_frames, total_cost, prev_clean, hvars>>

generate_cycles == cycle_forward \/ cycle_reverse

\* the frame directories in the order assemble_all meets them: the kind
\* directories in its list, the directories of each sorted by name
WalkOrder ==
  <<<<"singles", "flame">>, <<"singles", "ghost">>, <<"singles", "liquid">>,
    <<"singles", "orb">>, <<"chains", "melt">>, <<"journeys", "quest">>,
    <<"cycles", "blaze">>, <<"cycles", "orbit">>>>

\* the loops of assemble_all from the j-th directory on, starting with the
\* images g and s: a directory that exists and holds min_count frames or more
\* is assembled under its own name
RECURSIVE AssembleFrom(_, _, _, _)
AssembleFrom(j, g, s, min_count) ==
  IF j > Len(WalkOrder) THEN [gif |-> g, static |-> s]
  ELSE LET key == WalkOrder[j]
           frames == sorted_glob(disk[key])
       IN IF key \notin dirs \/ Len(frames) < min_count
          THEN AssembleFrom(j + 1, g, s, min_count)
          ELSE LET a == frames_to_gif(disk[key], UpscaleSize, FrameDurationMs)
                   f == create_static_fallback(disk[key], UpscaleSize, DefaultFrameIndex)
               IN AssembleFrom(j + 1,
                               [g EXCEPT ![key] = IF a.file = None THEN @ ELSE a.file],
                               [s EXCEPT ![key[2]] = IF f.file = None THEN @ ELSE f.file],
                               min_count)

\* assemble_all passing over the directories that are not complete
assemble_all_complete_only ==
  /\ phase \in {"idle", "done", "interrupted", "crashed", "rejected"}
  /\ LET out == AssembleFrom(1, gif, static, MinCount)
     IN gif' = out.gif /\ static' = out.static
  /\ UNCHANGED <<run, phase, idx, sub, step, all_frames, forward_frames, dirs, disk,
                 total_cost, kind_cost, calls, last_call, written, cost_of, paid,
                 budget, run_faults, prev_clean, hvars>>

\* cmd_assemble: assemble_all, between two runs of cmd_generate
assemble_all ==
  /\ phase \in {"idle", "done", "interrupted", "crashed", "rejected"}
  /\ LET out == AssembleFrom(1, gif, static, 1)
     IN gif' = out.gif /\ static' = out.static
  /\ UNCHANGED <<run, phase, idx, sub, step, all_frames, forward_frames, dirs, disk,
                 total_cost, kind_cost, calls, last_call, written, cost_of, paid,
                 budget, run_faults, prev_clean, hvars>>

\* cmd_generate with type "all", run again and again
Next ==
  \/ cmd_generate
  \/ kind_return
  \/ generate_singles
  \/ generate_emotes
  \/ generate_chains
  \/ generate_journeys
  \/ generate_cycles

\* one call of the codec or of the assembler
TNext ==
  \/ CallSaveFrames /\ UNCHANGED <<ovars, cvars>>
  \/ CallSaveFramesOffset /\ UNCHANGED <<ovars, cvars>>
  \/ CallFramesToGif /\ UNCHANGED <<ovars, cvars>>
  \/ CallStaticFallback /\ UNCHANGED <<ovars, cvars>>

\* one call of a function of the config
CNext ==
  \/ CallCountAnimations /\ UNCHANGED <<ovars, tvars>>
  \/ CallEstimateCost /\ UNCHANGED <<ovars, tvars>>
  \/ CallValidate /\ UNCHANGED <<ovars, tvars>>
  \/ CallLoadConfig /\ UNCHANGED <<ovars, tvars>>

\* the generate command and the assemble command, in any order
NextAssemble ==
  \/ Next
  \/ assemble_all

\* faults of each kind the environment may inject in the other specifications
MaxIntr == 1
MaxSaveErr == 1

\* runs in which remote calls may fail
Init == OInit /\ TIdle /\ CIdle /\ config = ValidConfig /\ budget = [fail |-> MaxFail, ioerr |-> 0, intr |-> 0]
Spec == Init /\ [][Next]_vars

\* runs that may be interrupted while frames are being written
InitInterrupt == OInit /\ TIdle /\ CIdle /\ config = ValidConfig /\ budget = [fail |-> 0, ioerr |-> 0, intr |-> MaxIntr]
SpecInterrupt == InitInterrupt /\ [][Next]_vars

\* runs in which the saving of frames may raise
InitSaveError == OInit /\ TIdle /\ CIdle /\ config = ValidConfig /\ budget = [fail |-> 0, ioerr |-> MaxSaveErr, intr |-> 0]
SpecSaveError == InitSaveError /\ [][Next]_vars

\* the codec and the assembler on their own
InitCodec ==
  TInit /\ OInit /\ CIdle /\ config = ValidConfig /\ budget = [fail |-> 0, ioerr |-> 0, intr |-> 0]
SpecCodec == InitCodec /\ [][TNext]_vars

\* runs in which a call may fail and which may be interrupted while frames are
\* being written
InitFaulty ==
  /\ OInit /\ TIdle /\ CIdle /\ config = ValidConfig
  /\ budget = [fail |-> 1, ioerr |-> 0, intr |-> 1]
SpecFaulty == InitFaulty /\ [][Next]_vars

\* the names --target may give: of a single with an emote, of a journey, of a
\* chain, of an emote without its single, and one that is in no catalog
TargetSets == {{"flame", "nosuch"}, {"quest", "melt"}, {"nosuch"}, {"liquid", "orb"}}

\* runs with --target, in which a call may fail
InitTarget ==
  /\ OInit /\ TIdle /\ c_pc = "off" /\ c_ret = NoReturn /\ config = ValidConfig
  /\ args \in [target : TargetSets]
  /\ budget = [fail |-> 2, ioerr |-> 0, intr |-> 0]
SpecTarget == InitTarget /\ [][Next]_vars

\* runs that may be interrupted while frames are being written, with the
\* assemble command between them
InitAssemble ==
  /\ OInit /\ TIdle /\ CIdle /\ config = ValidConfig
  /\ budget = [fail |-> 0, ioerr |-> 0, intr |-> 1]
SpecAssemble == InitAssemble /\ [][NextAssemble]_vars

\* the functions of the config on their own
InitConfig == CInit /\ OInit /\ TIdle /\ budget = [fail |-> 0, ioerr |-> 0, intr |-> 0]
SpecConfig == InitConfig /\ [][CNext]_vars

\* the generate command on a config that may be invalid
InitValidate ==
  /\ OInit /\ TIdle /\ CIdle
  /\ config \in {ValidConfig} \cup InvalidConfigs
  /\ budget = [fail |-> 1, ioerr |-> 0, intr |-> 0]
SpecValidate == InitValidate /\ [][Next]_vars

(***************************************************************************)
(* Properties of the orchestrator.                                          *)
(***************************************************************************)
\* the loop of generate_<kind> is at the head of its pass for an item
AtHead(kind) == phase = kind /\ sub = "head" /\ idx <= Len(Items(kind))

\* the completion threshold of an item
Threshold(kind, name) ==
  CASE kind = "singles" -> 16
    [] kind = "cycles" -> 32
    [] OTHER -> Len(Steps(name)) * 16

FrameCount(key) == Cardinality(DOMAIN disk[key])

NoCalls(kind, name) == \A s \in Sites : (s[1] = kind /\ s[2] = name) => calls[s] = <<>>

\* C1: a single, chain, journey or cycle reached with at least its completion
\* threshold of frame files in its directory is passed over: no remote call is
\* issued and no frame file changes.
C1_SkipRule ==
  [][\A kind \in {"singles", "chains", "journeys", "cycles"} :
       (AtHead(kind) /\ FrameCount(<<kind, Items(kind)[idx]>>)
                          >= Threshold(kind, Items(kind)[idx]))
         => /\ calls' = calls
            /\ paid' = paid
            /\ disk' = disk
            /\ written' = written
            /\ phase' = phase /\ sub' = "head" /\ idx' = idx + 1]_vars

\* C1 witness: a second run that ends having passed over every single, chain,
\* journey and cycle, each at or above its threshold
C1_Witness ==
  /\ run = 2 /\ phase = "done"
  /\ \A kind \in {"singles", "chains", "journeys", "cycles"} :
       \A name \in Range(Items(kind)) :
         FrameCount(<<kind, name>>) >= Threshold(kind, name) /\ NoCalls(kind, name)

\* C2: the run that follows a run of all five kinds in which every remote call
\* succeeded issues no remote call, reports zero cost and changes no frame file.
C2_BatchIdempotent ==
  prev_clean =>
    /\ \A s \in Sites : calls[s] = <<>>
    /\ total_cost = 0 /\ kind_cost = 0
    /\ \A k \in DirKeys : written[k] = {}

\* C3: the total cost a run reports is the sum of the costs returned by the
\* remote calls that succeeded in it, whatever happened after a call returned.
C3_CostIsSumOfSuccessfulCalls == phase = "done" => total_cost = paid

\* an animation is partly written: some of its frame files are there, not all
Partial(kind, name) ==
  CASE kind = "emotes" ->
         LET have == DOMAIN disk[<<"singles", name>>] \cap (16..31)
         IN have # {} /\ have # 16..31
    [] OTHER -> FrameCount(<<kind, name>>) > 0
                  /\ FrameCount(<<kind, name>>) < Threshold(kind, name)

\* C4: after an interruption, a run in which every call succeeds generates
\* again whatever was left partly written, so that at its end no configured
\* animation of any kind is partly written.
C4_ResumeCompletesPartial ==
  (phase = "done" /\ run_faults = 0) =>
    \A j \in 1..Len(Kinds) : \A name \in Range(Items(Kinds[j])) : ~Partial(Kinds[j], name)

KindIndex(kind) == CHOOSE j \in 1..Len(Kinds) : Kinds[j] = kind

\* the pass over a chain or journey is over in this run
SeqOver(kind, name) ==
  \/ phase = "done"
  \/ phase \in Range(Kinds) /\ KindIndex(phase) > KindIndex(kind)
  \/ phase = kind /\ sub = "head" /\ \E k \in 1..(idx - 1) : Items(kind)[k] = name

\* C5: when the call of step k of a chain or journey fails, no call is issued
\* for a later step in this run, the cost added for the sequence is that of
\* the k steps before, and once the pass is over the frames written for it are
\* the frames of those k steps, concatenated in step order from index 0
\* (nothing when k is the first step).
C5_StepFailure ==
  \A kind \in {"chains", "journeys"} : \A name \in Range(Items(kind)) :
    \A k \in 0..(Len(Steps(name)) - 1) :
      ("fail" \in Range(calls[<<kind, name, k>>])) =>
        /\ Len(calls[<<kind, name, k>>]) = 1
        /\ \A j \in 0..(Len(Steps(name)) - 1) :
             /\ j > k => calls[<<kind, name, j>>] = <<>>
             /\ j < k => calls[<<kind, name, j>>] = <<"ok">>
        /\ cost_of[<<kind, name>>] = k * CallCost
        /\ SeqOver(kind, name) =>
             /\ written[<<kind, name>>] = 0..(16 * k - 1)
             /\ \A i \in 0..(16 * k - 1) :
                  disk[<<kind, name>>][i] =
                    Png(<<run, kind, name, i \div 16, i % 16>>, FrameSize)

\* C5 witness: the second step of the journey failed, the pass is over and the
\* sixteen frames of its first step are what the directory holds
C5_Witness ==
  /\ calls[<<"journeys", "quest", 1>>] = <<"fail">>
  /\ phase = "cycles"
  /\ DOMAIN disk[<<"journeys", "quest">>] = 0..15
  /\ written[<<"journeys", "quest">>] = 0..15

\* C6: an emote reached while its single has no frame_15 file is passed over:
\* no remote call, no cost, no file written, and the loop goes on to the next
\* emote.
C6_MissingDependencySkips ==
  [][(AtHead("emotes")
        /\ 15 \notin DOMAIN disk[<<"singles", Items("emotes")[idx]>>])
       => /\ calls' = calls
          /\ paid' = paid
          /\ kind_cost' = kind_cost /\ cost_of' = cost_of
          /\ disk' = disk /\ dirs' = dirs /\ gif' = gif /\ static' = static
          /\ phase' = "emotes" /\ idx' = idx + 1]_vars

\* C6 witness: the emote of "orb" was passed over, its single having no frame 15
C6_Witness ==
  /\ phase = "emotes" /\ idx = 3
  /\ calls[<<"emotes", "orb", 0>>] = <<>>
  /\ 15 \notin DOMAIN disk[<<"singles", "orb">>]

\* the step a remote call of a chain or journey was issued for
StepOf(site) == Steps(site[2])[site[3] + 1]

\* C7: a step whose `from` is a base alias resolves to the project reference
\* whatever singles are on disk and whatever frames the sequence has produced;
\* so does every call issued for such a step.
C7_AliasResolvesToReference ==
  /\ \A a \in BaseAliases :
       \A prev \in {<<>>, all_frames, RemoteFrames(<<"chains", "melt", 0>>)} :
         resolve_step_reference([from |-> a], prev) = ProjectRef
  /\ (last_call.site[1] \in {"chains", "journeys"}
        /\ StepOf(last_call.site).from \in BaseAliases)
       => last_call.ref = ProjectRef

\* C7 witness: the call of the chain's second step, from "liquid", issued with
\* frames of the first step in hand while singles/liquid/frame_15 is on disk
C7_Witness ==
  /\ last_call.site = <<"chains", "melt", 1>>
  /\ calls[<<"chains", "melt", 0>>] = <<"ok">>
  /\ 15 \in DOMAIN disk[<<"singles", "liquid">>]
  /\ last_call.ref = ProjectRef

(***************************************************************************)
(* Properties of the codec and the assembler, under SpecCodec.              *)
(***************************************************************************)
\* the indices the call of the state writes
NewIndices == {t_in.offset + k - 1 : k \in 1..t_in.n}

\* a sequence of frame indices in strictly increasing name order
InNameOrder(files) ==
  \A k \in 1..(Len(files) - 1) : KeyOf(files[k]) < KeyOf(files[k + 1])

\* C8 as stated: persisting N frames at start index s and then listing yields
\* exactly the N files frame_<NN>, two digits each, indices s..s+N-1 in that
\* order, for every N, s and directory.
C8_ListingIsExactlyTheSavedFrames ==
  t_pc = "saved" =>
    /\ sorted_glob(t_dir) = [k \in 1..t_in.n |-> t_in.offset + k - 1]
    /\ \A i \in DOMAIN t_dir : Len(Fmt02d(i)) = 2

\* C8 amended: persisting N frames at start index s creates the directory,
\* returns the paths of indices s..s+N-1 in order, writes frame k's decoded
\* bytes to index s+k-1 and leaves every other file as it was; when the
\* directory held no other frame file and s+N <= 100 the listing is exactly
\* those N files, with two-digit names, in index order.
C8_PersistThenList ==
  t_pc = "saved" =>
    /\ "frame_dir" \in t_made
    /\ t_paths = [k \in 1..t_in.n |-> t_in.offset + k - 1]
    /\ DOMAIN t_dir = (DOMAIN t_in.pre) \cup NewIndices
    /\ \A k \in 1..t_in.n : t_dir[t_in.offset + k - 1] = Png(<<"in", k>>, t_in.size)
    /\ \A i \in (DOMAIN t_in.pre) \ NewIndices : t_dir[i] = t_in.pre[i]
    /\ InNameOrder(sorted_glob(t_dir))
    /\ ((DOMAIN t_in.pre) \subseteq NewIndices /\ t_in.offset + t_in.n <= 100)
         => /\ sorted_glob(t_dir) = t_paths
            /\ \A i \in DOMAIN t_dir : Len(Fmt02d(i)) = 2

\* C8 witness: four frames persisted at offset 16 into a fresh directory
C8_Witness ==
  /\ t_pc = "saved"
  /\ t_in.n = 4 /\ t_in.offset = EmoteOffset /\ DOMAIN t_in.pre = {}
  /\ sorted_glob(t_dir) = <<16, 17, 18, 19>>

\* C9: a looping image assembled from k >= 1 frame files has exactly k
\* frames, in sorted file order, each on an upscale x upscale canvas whatever
\* the frame size, and the output path is returned.
C9_GifFramesAndCanvas ==
  (t_pc = "gif" /\ DOMAIN t_dir # {}) =>
    /\ t_ret = Some("output_path")
    /\ Len(t_out) = 1
    /\ LET files == sorted_glob(t_dir)
           image == t_out[1]
       IN /\ Len(image.frames) = Cardinality(DOMAIN t_dir)
          /\ InNameOrder(files)
          /\ \A k \in 1..Len(image.frames) :
                image.frames[k] = [px |-> t_dir[files[k]].px,
                                 w |-> t_in.upscale, h |-> t_in.upscale]

\* C9 witness: a looping image of four 32-pixel frames upscaled to 256
C9_Witness ==
  /\ t_pc = "gif"
  /\ Cardinality(DOMAIN t_dir) = 4 /\ t_in.size = 32
  /\ Len(t_out) = 1 /\ Len(t_out[1].frames) = 4 /\ t_out[1].frames[1].w = 256

\* C10: with no frame file in the directory, frames_to_gif and
\* create_static_fallback return absent and create neither the output file
\* nor its parent directory.
C10_FailSoftOnEmpty ==
  (t_pc \in {"gif", "static"} /\ DOMAIN t_dir = {}) =>
    /\ t_ret = None
    /\ t_out = None
    /\ "out_parent" \notin t_made

\* C10 witness: the static fallback asked of an existing, empty directory
C10_Witness ==
  /\ t_pc = "static"
  /\ DOMAIN t_dir = {} /\ "frame_dir" \in t_made
  /\ t_ret = None

\* the picture of a frame file on a canvas of u x u
Upscaled(bytes, u) == [px |-> bytes.px, w |-> u, h |-> u]

\* the frame file whose name comes last
LastByName(dir) == CHOOSE i \in DOMAIN dir : \A j \in DOMAIN dir : KeyOf(j) <= KeyOf(i)

\* C11: the static fallback is made from the frame file of the asked index when
\* it is there, otherwise from the frame file whose name sorts last; nothing is
\* returned only when the directory holds no frame file.  With the default
\* index and frames 00..31 on disk the source is frame 15.
C11_StaticFallbackSelection ==
  t_pc = "static" =>
    /\ (t_ret = None) <=> (DOMAIN t_dir = {})
    /\ (t_out = None) <=> (DOMAIN t_dir = {})
    /\ t_index \in DOMAIN t_dir
         => t_out = Some(Upscaled(t_dir[t_index], t_in.upscale))
    /\ (t_index \notin DOMAIN t_dir /\ DOMAIN t_dir # {})
         => t_out = Some(Upscaled(t_dir[LastByName(t_dir)], t_in.upscale))
    /\ (t_index = 15 /\ DOMAIN t_dir = 0..31)
         => t_out = Some(Upscaled(t_dir[15], t_in.upscale))

\* C11 witness: the asked index is missing from a directory of more than a
\* hundred frames, and the frame taken is not the one of highest index
C11_Witness ==
  /\ t_pc = "static"
  /\ t_index \notin DOMAIN t_dir
  /\ Cardinality(DOMAIN t_dir) > 100
  /\ LastByName(t_dir) = 99
  /\ t_out = Some(Upscaled(t_dir[99], t_in.upscale))

\* the item was dealt with in this run: it is complete, or a call for it failed
Handled(kind, name) ==
  \/ FrameCount(<<kind, name>>) >= Threshold(kind, name)
  \/ \E s \in Sites : s[1] = kind /\ s[2] = name /\ "fail" \in Range(calls[s])

\* C14: a failed remote call writes nothing, costs nothing and does not end
\* the run: the loop goes on to the next item (for a step of a chain or
\* journey, to the end of that sequence), no run is ended by a failed call, and
\* at the end of a run every single, chain, journey and cycle is complete or
\* had a failed call of its own.
C14_FailedCallNotFatal ==
  /\ [][\A s \in Sites :
         calls'[s] = Append(calls[s], "fail") =>
           /\ disk' = disk /\ gif' = gif /\ static' = static /\ written' = written
           /\ total_cost' = total_cost /\ kind_cost' = kind_cost /\ paid' = paid
           /\ phase' = phase
           /\ IF s[1] \in {"chains", "journeys"}
              THEN idx' = idx /\ sub' = "finish"
              ELSE idx' = idx + 1 /\ sub' = "head"]_vars
  /\ [](phase \notin {"crashed", "interrupted", "rejected"})
  /\ [](phase = "done" =>
          \A kind \in {"singles", "chains", "journeys", "cycles"} :
            \A name \in Range(Items(kind)) : Handled(kind, name))

\* C14 witness: the call of the first single failed, and the run went on to
\* generate the second single, the chain and a cycle
C14_Witness ==
  /\ phase = "done"
  /\ calls[<<"singles", "flame", 0>>] = <<"fail">>
  /\ written[<<"singles", "liquid">>] = 0..15
  /\ written[<<"chains", "melt">>] = 0..31
  /\ written[<<"cycles", "orbit">>] = 0..31

\* C15: a cycle generated in this run holds exactly frames 00..31: the forward
\* single's frames 0..15, then the 16 reverse frames; and the reverse call was
\* given the forward single's frame 15 as its reference.
C15_CycleIsForwardPlusReverse ==
  \A name \in Range(Cycles) :
    calls[<<"cycles", name, 1>>] = <<"ok">> =>
      LET d == disk[<<"cycles", name>>]
          f == disk[<<"singles", Shape(name)>>]
      IN /\ DOMAIN d = 0..31
         /\ written[<<"cycles", name>>] = 0..31
         /\ \A i \in 0..15 : d[i] = f[i]
         /\ \A i \in 16..31 : d[i] = Png(<<run, "cycles", name, 1, i - 16>>, FrameSize)
         /\ last_call.site = <<"cycles", name, 1>> =>
              last_call.ref = FileRef(<<"singles", Shape(name)>>, 15, f)

\* C16: a cycle that is not skipped reuses the forward single, with no forward
\* call and no cost, exactly when that single is complete on disk (at least 16
\* frames); otherwise it issues a forward call from the project reference and
\* stores the frames as that single; then exactly one reverse call follows; a
\* failed forward call ends the cycle with no reverse call and nothing written.
C16_CycleForwardReuse ==
  /\ [][(AtHead("cycles")
           /\ FrameCount(<<"cycles", Items("cycles")[idx]>>) < 32) =>
         LET name == Items("cycles")[idx]
             single == <<"singles", Shape(name)>>
             fwd == <<"cycles", name, 0>>
         IN IF FrameCount(single) >= 16
            THEN /\ calls' = calls /\ paid' = paid /\ kind_cost' = kind_cost
                 /\ disk' = disk
                 /\ sub' = "reverse" /\ idx' = idx
            ELSE /\ Len(calls'[fwd]) = Len(calls[fwd]) + 1
                 /\ last_call'.site = fwd /\ last_call'.ref = ProjectRef
                 /\ IF calls'[fwd][Len(calls'[fwd])] = "ok"
                    THEN /\ DOMAIN disk'[single] = 0..15
                         /\ \A i \in 0..15 :
                              disk'[single][i] = Png(<<run, "cycles", name, 0, i>>, FrameSize)
                         /\ sub' = "reverse" /\ idx' = idx
                    ELSE /\ disk' = disk /\ written' = written
                         /\ sub' = "head" /\ idx' = idx + 1]_vars
  /\ [][(phase = "cycles" /\ sub = "reverse") =>
         LET rev == <<"cycles", Items("cycles")[idx], 1>>
         IN Len(calls'[rev]) = Len(calls[rev]) + 1 /\ last_call'.site = rev]_vars
  /\ [](\A name \in Range(Cycles) :
          /\ Len(calls[<<"cycles", name, 1>>]) <= 1
          /\ "fail" \in Range(calls[<<"cycles", name, 0>>]) =>
               calls[<<"cycles", name, 1>>] = <<>> /\ written[<<"cycles", name>>] = {})

\* C17: the call of a step k >= 1 whose `from` is empty is given the last frame
\* produced by the step before it as its reference.
C17_EmptyFromUsesPreviousStep ==
  (/\ last_call.site[1] \in {"chains", "journeys"}
   /\ last_call.site[3] >= 1
   /\ StepOf(last_call.site).from = "") =>
    last_call.ref =
      TmpRef(Png(<<run, last_call.site[1], last_call.site[2], last_call.site[3] - 1,
                   FramesPerCall - 1>>, FrameSize))

\* the site at which a remote call is issued in this step, if any
Calling == \E s \in Sites : Len(calls'[s]) = Len(calls[s]) + 1
CalledSite == CHOOSE s \in Sites : Len(calls'[s]) = Len(calls[s]) + 1

\* C18: the call of a step whose `from` is a name that is neither empty nor a
\* base alias is given singles/<from>/frame_15 when that file exists, even with
\* frames of earlier steps in hand; otherwise a temporary copy of the frame
\* produced last by the earlier steps, if there is one; otherwise the project
\* reference.  Resolving changes nothing in the output tree.
C18_ResolverPriority ==
  [][(/\ Calling
      /\ CalledSite[1] \in {"chains", "journeys"}
      /\ StepOf(CalledSite).from \notin BaseAliases \cup {""}) =>
       LET s == CalledSite
           from == StepOf(s).from
           single == <<"singles", from>>
       IN /\ last_call'.site = s
          /\ last_call'.ref =
               IF 15 \in DOMAIN disk[single]
               THEN [t |-> "file", dir |-> single, idx |-> 15,
                     bytes |-> Some(disk[single][15])]
               ELSE IF s[3] >= 1
               THEN [t |-> "tmp", dir |-> <<"", "">>, idx |-> 0,
                     bytes |-> Some(Png(<<run, s[1], s[2], s[3] - 1, 15>>, FrameSize))]
               ELSE ProjectRef
          /\ disk' = disk /\ dirs' = dirs /\ gif' = gif /\ static' = static]_vars

\* C18 witness: the journey's second step, from "flame", was given
\* singles/flame/frame_15 although its first step had produced frames
C18_Witness ==
  /\ last_call.site = <<"journeys", "quest", 1>>
  /\ calls[<<"journeys", "quest", 0>>] = <<"ok">>
  /\ last_call.ref.t = "file"
  /\ last_call.ref.dir = <<"singles", "flame">>

\* C19: a chain or journey one of whose calls failed stays under its skip
\* threshold; reached again with some frames on disk it is attempted from its
\* first step with no previous frames; and a reference made of a previous
\* frame is always a frame produced in this run, never one found on disk.
C19_PartialSequenceRestarts ==
  /\ [](\A kind \in {"chains", "journeys"} : \A name \in Range(Items(kind)) :
          (\E k \in 0..(Len(Steps(name)) - 1) : "fail" \in Range(calls[<<kind, name, k>>]))
            => FrameCount(<<kind, name>>) < Threshold(kind, name))
  /\ [][\A kind \in {"chains", "journeys"} :
         (AtHead(kind) /\ FrameCount(<<kind, Items(kind)[idx]>>)
                            < Threshold(kind, Items(kind)[idx])) =>
           /\ phase' = kind /\ idx' = idx /\ sub' = "step"
           /\ step' = 1 /\ all_frames' = <<>>]_vars
  /\ [][(Calling /\ CalledSite[1] \in {"chains", "journeys"}) =>
         /\ \A k \in 0..(CalledSite[3] - 1) :
              calls[<<CalledSite[1], CalledSite[2], k>>] = <<"ok">>
         /\ last_call'.ref.t = "tmp" =>
              /\ CalledSite[3] >= 1
              /\ last_call'.ref.bytes =
                   Some(Png(<<run, CalledSite[1], CalledSite[2], CalledSite[3] - 1, 15>>,
                            FrameSize))]_vars

\* C19 witness: in a later run the journey, which holds the 16 frames an
\* earlier run left, has its first step called again from the project reference
C19_Witness ==
  /\ run >= 2
  /\ last_call.site = <<"journeys", "quest", 0>>
  /\ last_call.ref = ProjectRef
  /\ DOMAIN disk[<<"journeys", "quest">>] = 0..15
  /\ written[<<"journeys", "quest">>] = {}

\* C20: an emote whose single has frame 15 and no emote frame issues exactly
\* one remote call, with the single's frame_15 file as reference; on success
\* the 16 frames returned become frames 16..31 of the single's directory,
\* frames 0..15 are as they were, and the looping image is made again from all
\* 32 frames; an emote whose frames are there issues no call.
C20_EmoteExtension ==
  [][AtHead("emotes") =>
       LET name == Items("emotes")[idx]
           key == <<"singles", name>>
           site == <<"emotes", name, 0>>
           d == disk[key]
       IN IF 15 \in DOMAIN d /\ DOMAIN d \cap (16..31) = {}
          THEN /\ Len(calls'[site]) = Len(calls[site]) + 1
               /\ \A s \in Sites \ {site} : calls'[s] = calls[s]
               /\ last_call'.site = site
               /\ last_call'.ref = [t |-> "file", dir |-> key, idx |-> 15,
                                     bytes |-> Some(d[15])]
               /\ calls'[site][Len(calls'[site])] = "ok" =>
                    /\ DOMAIN disk'[key] = 0..31
                    /\ \A i \in 0..15 : disk'[key][i] = d[i]
                    /\ \A i \in 16..31 :
                         disk'[key][i] = Png(<<run, "emotes", name, 0, i - 16>>, FrameSize)
                    /\ \A k \in DirKeys \ {key} : disk'[k] = disk[k]
                    /\ gif'[key] # None
                    /\ Len(gif'[key][1].frames) = 32
                    /\ \A i \in 0..31 :
                         gif'[key][1].frames[i + 1] = Upscaled(disk'[key][i], UpscaleSize)
          ELSE (DOMAIN d \cap (16..31) # {}) => calls' = calls /\ disk' = disk]_vars

\* C20 witness: the emote of "flame" was generated and singles/flame holds
\* frames 00..31
C20_Witness ==
  /\ phase = "emotes"
  /\ calls[<<"emotes", "flame", 0>>] = <<"ok">>
  /\ written[<<"singles", "flame">>] = 16..31
  /\ DOMAIN disk[<<"singles", "flame">>] = 0..31

(***************************************************************************)
(* Properties of the config, under SpecConfig and SpecValidate.             *)
(***************************************************************************)
\* the remote calls a config plans: one per single, emote, step and cycle
PlannedCalls(c) ==
  {<<"singles", k, 0>> : k \in 1..Len(c.singles)}
    \cup {<<"emotes", k, 0>> : k \in 1..Len(c.emotes)}
    \cup UNION {{<<"chains", k, j>> : j \in 1..Len(c.chains[k].steps)} : k \in 1..Len(c.chains)}
    \cup UNION {{<<"journeys", k, j>> : j \in 1..Len(c.journeys[k].steps)} :
                  k \in 1..Len(c.journeys)}
    \cup {<<"cycles", k, 0>> : k \in 1..Len(c.cycles)}

\* the catalog sizes of the worked example: 2 singles, 1 emote, a 2-step
\* chain, a 3-step journey, 1 cycle
IsExample(c) ==
  /\ Len(c.singles) = 2 /\ Len(c.emotes) = 1 /\ Len(c.cycles) = 1
  /\ Len(c.chains) = 1 /\ Len(c.chains[1].steps) = 2
  /\ Len(c.journeys) = 1 /\ Len(c.journeys[1].steps) = 3

\* C12: total_api_calls is singles + emotes + steps of chains + steps of
\* journeys + cycles, the estimate is 16 cents times that; the worked example
\* gives 9 calls and 1.44.
C12_CallCountAndEstimate ==
  /\ c_pc = "counted" =>
       /\ c_ret.counts.total_api_calls = Cardinality(PlannedCalls(config))
       /\ c_ret.counts.total_api_calls =
            c_ret.counts.singles + c_ret.counts.emotes + c_ret.counts.chains
              + c_ret.counts.journeys + c_ret.counts.cycles
       /\ IsExample(config) => c_ret.counts.total_api_calls = 9
  /\ c_pc = "estimated" =>
       /\ c_ret.cost = 16 * Cardinality(PlannedCalls(config))
       /\ IsExample(config) => c_ret.cost = 144

\* C12 witness: the estimate of the worked example
C12_Witness == c_pc = "estimated" /\ IsExample(config) /\ c_ret.cost = 144

\* C13: on a config with validation errors the generate command issues no
\* generation call, writes nothing under the output directory and returns a
\* failure status.
C13_InvalidConfigStopsBatch ==
  validate(config) # <<>> =>
    /\ \A s \in Sites : calls[s] = <<>>
    /\ paid = 0 /\ last_call = NoCall
    /\ dirs = {}
    /\ \A k \in DirKeys : disk[k] = EmptyDir /\ gif[k] = None /\ written[k] = {}
    /\ \A n \in DOMAIN static : static[n] = None
    /\ phase \in {"idle", "rejected"}
    /\ run > 0 => exit_status = Some(1)

\* C13 witness: the command has returned on a config whose only defect is a
\* chain of one step
C13_Witness ==
  /\ phase = "rejected" /\ run = 1
  /\ Len(config.chains[1].steps) = 1
  /\ Len(validate(config)) = 1

(***************************************************************************)
(* Further properties of the orchestrator.                                  *)
(***************************************************************************)
\* C21: every remote call, failed or not, is followed by the 1-second pause.
C21_PauseAfterEveryCall == last_call # NoCall => last_call.slept

\* C22: in every animation directory the frame indices present are a
\* contiguous range starting at 0.
C22_IndicesContiguousFromZero ==
  \A k \in DirKeys : DOMAIN disk[k] = 0..(Cardinality(DOMAIN disk[k]) - 1)

\* C22 witness: a run was interrupted while the emote extension was being
\* written, and in the next one a failed call left the chain with the frames
\* of its first step only
C22_Witness ==
  /\ run = 2
  /\ DOMAIN disk[<<"singles", "flame">>] = 0..17
  /\ DOMAIN disk[<<"chains", "melt">>] = 0..15

\* C23 as stated: a frame file, once written, keeps its content for good.
C23_FramesNeverChange ==
  [][\A k \in DirKeys : \A i \in DOMAIN disk[k] :
       i \in DOMAIN disk'[k] /\ disk'[k][i] = disk[k][i]]_vars

\* C23: no frame file is ever removed, and the frame files of a directory that
\* has reached its completion threshold keep their content; later operations
\* only add files to it.
C23_CompleteFramesImmutable ==
  [][\A k \in DirKeys :
       /\ DOMAIN disk[k] \subseteq DOMAIN disk'[k]
       /\ FrameCount(k) >= Threshold(k[1], k[2]) =>
            \A i \in DOMAIN disk[k] : disk'[k][i] = disk[k][i]]_vars

\* C23 witness: a second run has added the emote extension to a single the
\* first run completed, and has passed over another complete single
C23_Witness ==
  /\ run = 2
  /\ written[<<"singles", "flame">>] = 16..31
  /\ DOMAIN disk[<<"singles", "flame">>] = 0..31
  /\ \A i \in 0..15 : disk[<<"singles", "flame">>][i].px[1] = 1
  /\ written[<<"singles", "liquid">>] = {}
  /\ FrameCount(<<"singles", "liquid">>) = 16

\* C25: in one run at most one remote call is issued for each single, each
\* emote, each step of each chain or journey and each direction of each cycle.
C25_NoRetry == \A s \in Sites : Len(calls[s]) <= 1

\* C25 witness: a run has ended in which a step of the journey and the reverse
\* call of a cycle failed, each called once
C25_Witness ==
  /\ phase = "done"
  /\ calls[<<"journeys", "quest", 1>>] = <<"fail">>
  /\ calls[<<"cycles", "orbit", 1>>] = <<"fail">>

\* the run that produced a frame file
RunOf(bytes) == bytes.px[1]

\* C29: the frame files of a chain or journey directory all come from one
\* attempt, and so do the frames of its looping image.
C29_NoMixingOfRuns ==
  \A kind \in {"chains", "journeys"} : \A name \in Range(Items(kind)) :
    LET d == disk[<<kind, name>>]
        g == gif[<<kind, name>>]
    IN /\ \A i, j \in DOMAIN d : RunOf(d[i]) = RunOf(d[j])
       /\ g # None => \A i, j \in 1..Len(g[1].frames) :
                        RunOf(g[1].frames[i]) = RunOf(g[1].frames[j])

\* the sites called in this run (no site is called twice in a run)
SitesCalled == {s \in Sites : calls[s] # <<>>}

\* C30: a first run from an empty output tree in which every call succeeds
\* issues exactly total_api_calls remote calls, one of them for each cycle.
C30_EstimateMatchesRun ==
  (run = 1 /\ phase = "done" /\ run_faults = 0) =>
    /\ Cardinality(SitesCalled) = count_animations(config).total_api_calls
    /\ \A name \in Range(Cycles) :
         Cardinality({s \in SitesCalled : s[1] = "cycles" /\ s[2] = name}) = 1


\* C24: with a non-empty --target, calls for singles, emotes and journeys are
\* issued only for the names in it, and every chain and every cycle is still
\* dealt with.
C24_TargetFiltering ==
  args.target # {} =>
    /\ \A s \in SitesCalled :
         s[1] \in {"singles", "emotes", "journeys"} => s[2] \in args.target
    /\ phase = "done" =>
         \A kind \in {"chains", "cycles"} :
           \A name \in Range(Items(kind)) : Handled(kind, name)

\* C24 witness: the run for flame and a name in no catalog generated the single
\* flame; it left the single liquid and the journey alone and generated the
\* chain and a cycle
C24_Witness ==
  /\ args.target = {"flame", "nosuch"}
  /\ phase = "done"
  /\ calls[<<"singles", "flame", 0>>] = <<"ok">>
  /\ calls[<<"singles", "liquid", 0>>] = <<>>
  /\ disk[<<"singles", "liquid">>] = EmptyDir
  /\ calls[<<"journeys", "quest", 0>>] = <<>>
  /\ calls[<<"chains", "melt", 1>>] = <<"ok">>
  /\ calls[<<"cycles", "blaze", 1>>] = <<"ok">>

\* the frame directories assemble_all finds frames in
WithFrames == {k \in DirKeys : k \in dirs /\ DOMAIN disk[k] # {}}

\* C26: assemble_all issues no remote call and touches no frame file; for
\* every directory holding a frame it writes the GIF and the static image
\* made of the frames of that directory, and it leaves every other image as
\* it was.
C26_Reassembly ==
  [][assemble_all =>
       /\ calls' = calls /\ last_call' = last_call
       /\ paid' = paid /\ total_cost' = total_cost
       /\ disk' = disk /\ dirs' = dirs
       /\ \A k \in WithFrames :
            /\ gif'[k] # None /\ static'[k[2]] # None
            /\ gif'[k] = frames_to_gif(disk[k], UpscaleSize, FrameDurationMs).file
            /\ static'[k[2]] =
                 create_static_fallback(disk[k], UpscaleSize, DefaultFrameIndex).file
       /\ \A k \in DirKeys \ WithFrames : gif'[k] = gif[k]
       /\ \A n \in DOMAIN static :
            (\A k \in WithFrames : k[2] # n) => static'[n] = static[n]]_vars

\* C26 witness: after an interrupted run left part of the frames of the single
\* flame, which no run assembled, the GIF and the static image of flame are
\* made of those frames, and the single liquid has neither
C26_Witness ==
  /\ phase = "interrupted"
  /\ FrameCount(<<"singles", "flame">>) \in 1..(MinCount - 1)
  /\ gif[<<"singles", "flame">>] =
       frames_to_gif(disk[<<"singles", "flame">>], UpscaleSize, FrameDurationMs).file
  /\ static["flame"] # None
  /\ disk[<<"singles", "liquid">>] = EmptyDir
  /\ gif[<<"singles", "liquid">>] = None
  /\ static["liquid"] = None

(***************************************************************************)
(* Further properties of the config.                                        *)
(***************************************************************************)
HasPrompt(entry) == IsMapping(entry) /\ entry.prompt
Count(S) == Cardinality(S)
Flag(b) == IF b THEN 1 ELSE 0

\* the conditions a sequence of steps violates
StepViolations(entry) ==
  Flag(Len(entry.steps) < 2) + Count({i \in 1..Len(entry.steps) : ~entry.steps[i].prompt})

\* the conditions a cycle violates
CycleViolations(entry) ==
  IF ~IsMapping(entry) THEN 3
  ELSE Flag(entry.shape = "") + Flag(~entry.forward_prompt) + Flag(~entry.reverse_prompt)

\* the number of conditions on a config that c violates
Violations(c) ==
  Flag(~c.reference_exists) + Flag(c.frame_size < 16 \/ c.frame_size > 256)
    + Flag(c.upscale_size < c.frame_size) + Flag(c.frame_duration_ms < 10)
    + Count({k \in 1..Len(c.singles) : ~HasPrompt(c.singles[k])})
    + Count({k \in 1..Len(c.emotes) : ~HasPrompt(c.emotes[k])})
    + Sum([k \in 1..Len(c.chains) |-> StepViolations(c.chains[k])])
    + Sum([k \in 1..Len(c.journeys) |-> StepViolations(c.journeys[k])])
    + Sum([k \in 1..Len(c.cycles) |-> CycleViolations(c.cycles[k])])

\* C27: validate raises nothing and returns one error for every condition the
\* config violates, so the empty list exactly when it violates none.
C27_ValidateTotal ==
  c_pc = "validated" =>
    /\ c_ret.raised = ""
    /\ Len(c_ret.errors) = Violations(config)

\* validate on the configs whose entries are all mappings returns one error
\* for every violated condition
C27_ValidateOnMappings ==
  (c_pc = "validated" /\ c_ret.raised = "") => Len(c_ret.errors) = Violations(config)

\* C28: load_config raises FileNotFoundError for a missing file and ValueError
\* for a file that is empty or no mapping, and a config it returns has no
\* validation errors.
C28_LoadedIsValidated ==
  c_pc = "loaded" =>
    /\ ~c_ret.file.exists => c_ret.raised = "FileNotFoundError"
    /\ (c_ret.file.exists /\ (c_ret.file.kind # "mapping" \/ c_ret.file.data.keys = {})) =>
         c_ret.raised = "ValueError"
    /\ c_ret.raised = "" => validate(c_ret.loaded[1]) = <<>>

\* load_config without the last conjunct: what it raises for a file that is
\* missing, empty or no mapping, and that it returns a config otherwise
C28_LoadOutcomes ==
  c_pc = "loaded" =>
    /\ ~c_ret.file.exists <=> c_ret.raised = "FileNotFoundError"
    /\ (c_ret.file.exists /\ (c_ret.file.kind # "mapping" \/ c_ret.file.data.keys = {})) <=>
         c_ret.raised = "ValueError"
    /\ c_ret.raised = "" <=> c_ret.loaded # None

(***************************************************************************)
(* The order of the kinds in a run.                                         *)
(***************************************************************************)
\* the place of a kind in the order cmd_generate calls the generate_* functions
KindRank(kind) ==
  CASE kind = "singles" -> 1
    [] kind = "emotes" -> 2
    [] kind = "chains" -> 3
    [] kind = "journeys" -> 4
    [] kind = "cycles" -> 5
    [] OTHER -> 6

\* the run is past the generate_* function of the kind
PhasePast(kind) == phase \in Range(Kinds) \cup {"done"} /\ KindRank(phase) > KindRank(kind)

\* the single was generated and saved in this run by generate_singles (not
\* by the forward call of a cycle)
SingleGenerated(name) ==
  /\ <<"singles", name, 0>> \in Sites
  /\ calls[<<"singles", name, 0>>] = <<"ok">>
  /\ \A c \in Range(Cycles) : Shape(c) = name => calls[<<"cycles", c, 0>>] = <<>>
  /\ 0..(MinCount - 1) \subseteq written[<<"singles", name>>]

\* C31: in a run, no call of a kind is issued after a call of a later kind
\* (singles, emotes, chains, journeys, cycles; the forward call of a cycle is
\* a call of the cycle); an emote whose single was generated in the run has a
\* call of its own in that run, and a cycle whose shape is a single generated
\* in the run issues no forward call.
C31_KindOrdering ==
  /\ [][Calling =>
          \A s \in SitesCalled : KindRank(s[1]) <= KindRank(CalledSite[1])]_vars
  /\ [](\A name \in Range(Emotes) :
          (PhasePast("emotes") /\ SingleGenerated(name)) =>
            calls[<<"emotes", name, 0>>] # <<>>)
  /\ [][\A name \in Range(Cycles) :
          (Calling /\ CalledSite = <<"cycles", name, 0>>) =>
            ~SingleGenerated(Shape(name))]_vars

\* C31 witness: a run generated the single flame, then its emote, then the
\* chain, the journey and the cycle blaze, which reused the single
C31_Witness ==
  /\ phase = "done"
  /\ SingleGenerated("flame")
  /\ calls[<<"emotes", "flame", 0>>] = <<"ok">>
  /\ calls[<<"chains", "melt", 0>>] # <<>>
  /\ calls[<<"journeys", "quest", 0>>] # <<>>
  /\ calls[<<"cycles", "blaze", 0>>] = <<>>
  /\ calls[<<"cycles", "blaze", 1>>] = <<"ok">>

(***************************************************************************)
(* The order of the frames of an assembled animation.                       *)
(***************************************************************************)
\* C32: the frames save_frames persisted into an empty directory are listed by
\* sorted() in the order they were persisted, and the animated image holds
\* them, upscaled, in that order, for every number of frames.
C32_PlaybackOrder ==
  (t_pc = "gif" /\ t_paths # <<>> /\ t_in.offset = 0 /\ DOMAIN t_in.pre = {}) =>
    /\ sorted_glob(t_dir) = t_paths
    /\ t_out # None
    /\ t_out[1].frames =
         [k \in 1..t_in.n |->
            Resize(ImageOpen(b64decode(InFrames(t_in.n, t_in.size)[k].base64)),
                   t_in.upscale)]

\* the same for at most 100 frames, where every index has two digits
C32_PlaybackOrderTwoDigits ==
  (t_pc = "gif" /\ t_paths # <<>> /\ t_in.offset = 0 /\ DOMAIN t_in.pre = {}
     /\ t_in.n <= 100) =>
    /\ sorted_glob(t_dir) = t_paths
    /\ t_out # None
    /\ t_out[1].frames =
         [k \in 1..t_in.n |->
            Resize(ImageOpen(b64decode(InFrames(t_in.n, t_in.size)[k].base64)),
                   t_in.upscale)]

(***************************************************************************)
(* The images of the directories a run wrote.                               *)
(***************************************************************************)
\* the GIF and the static image of the directory are those its frames give
Assembled(k) ==
  /\ gif[k] # None
  /\ gif[k] = frames_to_gif(disk[k], UpscaleSize, FrameDurationMs).file
  /\ static[k[2]] # None
  /\ static[k[2]] = create_static_fallback(disk[k], UpscaleSize, DefaultFrameIndex).file

\* the single's directory was written by the forward call of a cycle
ForwardWritten(k) ==
  /\ k[1] = "singles"
  /\ \E c \in Range(Cycles) : Shape(c) = k[2] /\ calls[<<"cycles", c, 0>>] = <<"ok">>

\* C33: at the end of a run, every directory the run wrote frames into has
\* the GIF and the static image made of its final frames, the directory of a
\* single written by the forward call of a cycle included.
C33_AssembledAfterWrites ==
  phase = "done" => \A k \in DirKeys : written[k] # {} => Assembled(k)

\* the same for every directory but those of the singles a cycle generated
C33_AssembledButForward ==
  phase = "done" =>
    \A k \in DirKeys : (written[k] # {} /\ ~ForwardWritten(k)) => Assembled(k)

====
